---- MODULE Spec2Model ----
(***************************************************************************)
(* Demand-forecasting pipeline of the BelleShop backend:                   *)
(*   backend/forecasting/ml_utils.py  prepare_training_data,               *)
(*                                    train_linear_regression_model,       *)
(*                                    predict_demand,                      *)
(*                                    generate_stock_recommendation        *)
(*   backend/forecasting/views.py     GenerateForecastView.post            *)
(*                                                                         *)
(* Time.  A timestamp (created_at, timezone.now()) is an instant counted   *)
(* in slots of 8 hours since 2024-01-01 00:00 UTC, three slots a day.      *)
(* settings.py sets USE_TZ = True and TIME_ZONE = 'Asia/Manila' (UTC+8),   *)
(* so a datetime read from the database is aware and in UTC: its .date()   *)
(* is the UTC day, while TruncDate and the __date lookups convert to the   *)
(* current time zone first, one slot ahead of UTC.  A calendar date is the *)
(* number of days since 2024-01-01, a Monday.                              *)
(*                                                                         *)
(* Numbers.  A Python float that need not be whole (a rolling mean, a raw  *)
(* model output, a stock/demand ratio) is an exact rational in lowest      *)
(* terms, [num, den]; the values met here are far below the size at which  *)
(* double rounding could change a comparison or a truncation.              *)
(*                                                                         *)
(* Specifications.  SpecPrep, SpecPrepAll, SpecTrain, SpecPredict and      *)
(* SpecRec each make one call of one function of ml_utils.py on enumerated *)
(* inputs; Spec is one request served by GenerateForecastView.post;        *)
(* SpecRerun is two requests served one after the other against the        *)
(* tables, with inserts that may fail; SpecConcurrent is two requests for  *)
(* one product with their database statements interleaved; SpecSales is    *)
(* two requests served one after the other while a sale may be completed   *)
(* between any two of their steps, for products with and without enough    *)
(* history and for a product that does not exist.  SpecMetrics is the      *)
(* accuracy of one evaluation on enumerated quantities and predictions.    *)
(***************************************************************************)
EXTENDS Integers, Sequences, FiniteSets, TLC

VARIABLES
    sales,              \* TransactionItem rows of the product, joined with their transaction
    now,                \* the current instant, timezone.now()
    product,            \* the Product row: current_stock, reorder_point
    request,            \* validated request data: forecast_days, training_days
    pc,                 \* position of the operation under way
    prepared,           \* what prepare_training_data returned: X, y, dates
    trained,            \* what train_linear_regression_model returned
    historical_data,    \* views.py: the list the rollout reads and appends to
    step,               \* views.py: the loop variable i
    future_predictions, \* views.py: the points of this run, in order
    last_call,          \* the last predict_demand call: its step, where it raised, what the
                        \* model answered, the features it built
    forecasts,          \* ProductForecast rows, in insertion order
    recommendation,     \* what generate_stock_recommendation returned
    products,           \* Product rows by primary key: name, current_stock, reorder_point
    runs,               \* the requests being served: the local variables of each post()
    forecast_models,    \* ForecastModel rows, in insertion order
    stock_recommendations,  \* StockRecommendation rows, in insertion order
    next_id,            \* the next primary key of ProductForecast and StockRecommendation
    y_test_values,      \* ml_utils.py y_test: the quantities of the evaluation rows
    y_pred_values,      \* ml_utils.py y_pred: the model's predictions for those rows
    metrics             \* ml_utils.py: the metrics dictionary of an evaluation

\* The tables and requests of the specifications with several runs
storeVars == <<products, runs, forecast_models, stock_recommendations, next_id>>

vars == <<sales, now, product, request, pc, prepared, trained, historical_data,
          step, future_predictions, last_call, forecasts, recommendation,
          products, runs, forecast_models, stock_recommendations, next_id,
          y_test_values, y_pred_values, metrics>>

\* The evaluation of a fitted model, on its own in SpecMetrics
evalVars == <<y_test_values, y_pred_values, metrics>>

NoEvaluation ==
    /\ y_test_values = <<>>
    /\ y_pred_values = <<>>
    /\ metrics = <<>>

\* The specifications of a single call leave the tables and requests empty
NoStore ==
    /\ products = <<>>
    /\ runs = <<>>
    /\ forecast_models = <<>>
    /\ stock_recommendations = <<>>
    /\ next_id = [forecast |-> 1, recommendation |-> 1]

-----------------------------------------------------------------------------
(* Bounds of the model *)

\* The enumerated histories hold sales on this many consecutive local days at most (SaleDays)
SpanDays == 17
\* At most this many of those days carry no completed sale
MaxGaps == 2
\* The longest training window requested (the shortest is one day short of MinSaleDays)
MaxTrainingDays == 16
\* Forecast horizons requested: 1..MaxForecastDays
MaxForecastDays == 3
\* Stock levels enumerated densely: 0..MaxStock (a few larger ones are added)
MaxStock == 110
\* Predicted demands enumerated: 0..MaxDemand
MaxDemand == 10

\* ml_utils.py:69  "if len(sales_list) < 14"
MinSaleDays == 14

-----------------------------------------------------------------------------
(* Arithmetic *)

Max(a, b) == IF a >= b THEN a ELSE b
Abs(a) == IF a >= 0 THEN a ELSE -a

RECURSIVE GCD(_, _)
GCD(a, b) == IF b = 0 THEN a ELSE GCD(b, a % b)

\* The rational n/d (d > 0) in lowest terms
Rat(n, d) ==
    LET g == GCD(Abs(n), d)
    IN  IF n = 0 THEN [num |-> 0, den |-> 1] ELSE [num |-> n \div g, den |-> d \div g]

RatLess(a, b) == a.num * b.den < b.num * a.den

\* Python's int(x) of a float: truncation toward zero
IntTrunc(x) == IF x.num >= 0 THEN x.num \div x.den ELSE -((-x.num) \div x.den)

RECURSIVE SeqSum(_)
SeqSum(s) == IF s = <<>> THEN 0 ELSE Head(s) + SeqSum(Tail(s))

\* numpy.mean of a non-empty list of whole numbers
Mean(s) == Rat(SeqSum(s), Len(s))

-----------------------------------------------------------------------------
(* Dates *)

\* datetime.date() of an aware datetime in UTC
UtcDate(t) == t \div 3

\* The day of an instant in the current time zone, Asia/Manila: 8 hours ahead
LocalDate(t) == (t + 1) \div 3

MonthLengths == <<31, 29, 31, 30, 31, 30, 31, 31, 30, 31, 30, 31>>

RECURSIVE MonthFrom(_, _)
MonthFrom(d, m) == IF d < MonthLengths[m] THEN m ELSE MonthFrom(d - MonthLengths[m], m + 1)

RECURSIVE DayFrom(_, _)
DayFrom(d, m) == IF d < MonthLengths[m] THEN d + 1 ELSE DayFrom(d - MonthLengths[m], m + 1)

\* date.weekday(), Series.dt.dayofweek: Monday is 0
DayOfWeek(d) == d % 7
DayOfMonth(d) == DayFrom(d, 1)
Month(d) == MonthFrom(d, 1)
IsWeekend(d) == IF DayOfWeek(d) \in {5, 6} THEN 1 ELSE 0

-----------------------------------------------------------------------------
(* prepare_training_data *)

\* What the function returns when it gives up: None, None, None
NoData == [none |-> TRUE, X |-> <<>>, y |-> <<>>, dates |-> <<>>]

\* filter(..., status='COMPLETED'), filter(..., transaction__status='COMPLETED')
CompletedMutant(S) == S
Completed(S) == {s \in S : s.status = "COMPLETED"}

RECURSIVE MaxOf(_)
MaxOf(S) ==
    LET x == CHOOSE v \in S : TRUE
    IN  IF S = {x} THEN x ELSE Max(x, MaxOf(S \ {x}))

RECURSIVE SumQuantity(_)
SumQuantity(S) ==
    IF S = {} THEN 0
    ELSE LET s == CHOOSE x \in S : TRUE IN s.quantity + SumQuantity(S \ {s})

RECURSIVE SortedSeq(_)
SortedSeq(S) ==
    IF S = {} THEN <<>>
    ELSE LET m == MaxOf(S) IN Append(SortedSeq(S \ {m}), m)

\* aggregate(max_date=Max('created_at')) over the completed transactions of the product
LatestSale(S) == MaxOf({s.created_at : s \in Completed(S)})

\* The grouped query: one row per local sale day within [start_date, end_date], ordered by date
SalesList(S, start_date, end_date) ==
    LET rows == {s \in Completed(S) : /\ LocalDate(s.created_at) >= start_date
                                      /\ LocalDate(s.created_at) <= end_date}
        days == SortedSeq({LocalDate(s.created_at) : s \in rows})
    IN  [k \in 1..Len(days) |->
            [date |-> days[k],
             total_quantity |-> SumQuantity({s \in rows : LocalDate(s.created_at) = days[k]})]]

\* pd.date_range(start, end, freq='D')
DateRange(start_date, end_date) ==
    [k \in 1..Max(0, end_date - start_date + 1) |-> start_date + (k - 1)]

\* set_index('date').reindex(date_range, fill_value=0): the quantity column
Reindex(sales_list, date_range) ==
    [k \in 1..Len(date_range) |->
        IF \E j \in 1..Len(sales_list) : sales_list[j].date = date_range[k]
        THEN sales_list[CHOOSE j \in 1..Len(sales_list) : sales_list[j].date = date_range[k]].total_quantity
        ELSE 0]

\* Series.shift(n).fillna(0) at row i
ShiftMutant(q, n, i) == IF i + n <= Len(q) THEN Rat(q[i + n], 1) ELSE Rat(0, 1)
Shift(q, n, i) == IF i - n >= 1 THEN Rat(q[i - n], 1) ELSE Rat(0, 1)

\* Series.rolling(window=w, min_periods=1).mean() at row i
RollingMeanMutant(q, w, i) == Mean(SubSeq(q, Max(1, i - w), i))
RollingMean(q, w, i) == Mean(SubSeq(q, Max(1, i - w + 1), i))

FeatureRow(date, q, i) ==
    [day_of_week     |-> DayOfWeek(date),
     day_of_month    |-> DayOfMonth(date),
     month           |-> Month(date),
     is_weekend      |-> IsWeekend(date),
     lag_1           |-> Shift(q, 1, i),
     lag_7           |-> Shift(q, 7, i),
     rolling_mean_7  |-> RollingMean(q, 7, i),
     rolling_mean_14 |-> RollingMean(q, 14, i)]

\* The window of the run: end_date is the .date() of the latest completed sale
EndDate(S) == UtcDate(LatestSale(S))
StartDate(S, days) == EndDate(S) - (days - 1)

GateMutant(sales_list) == Len(sales_list) < MinSaleDays - 1
Gate(sales_list) == Len(sales_list) < MinSaleDays

prepare_training_data(S, days) ==
    IF Completed(S) = {} THEN NoData
    ELSE LET end_date   == EndDate(S)
             start_date == StartDate(S, days)
             sales_list == SalesList(S, start_date, end_date)
             date_range == DateRange(start_date, end_date)
             quantity   == Reindex(sales_list, date_range)
         IN  IF Gate(sales_list) THEN NoData
             ELSE [none  |-> FALSE,
                   X     |-> [i \in 1..Len(date_range) |-> FeatureRow(date_range[i], quantity, i)],
                   y     |-> quantity,
                   dates |-> date_range]

-----------------------------------------------------------------------------
(* The sales histories enumerated *)

NoRequest == [forecast_days |-> 0, training_days |-> 0]
NoProduct == [current_stock |-> 0, reorder_point |-> <<>>]
NoTraining == [model |-> <<>>, scaler |-> <<>>, metrics |-> <<>>, training_info |-> <<>>]
NoCall == [step |-> 0, raises |-> "no", raw |-> Rat(0, 1), features |-> <<>>,
           model |-> <<>>, scaler |-> <<>>]
NoRecommendation == [none |-> TRUE]

\* The local days that may carry sales: from 2024-01-22 on, across the end of a month
SaleDays == 21..(20 + SpanDays)

RECURSIVE SubsetsUpTo(_, _)
SubsetsUpTo(S, k) ==
    IF k = 0 THEN {{}}
    ELSE LET P == SubsetsUpTo(S, k - 1) IN P \cup {p \cup {x} : p \in P, x \in S}

\* A completed sale on every day of SaleDays but those of gaps, each at 08:00-16:00 local time
\* but the latest, which is at 00:00-08:00 (last_slot = -1), 08:00-16:00 (0) or 16:00-24:00 (1);
\* every fifth day has a second line item in the evening; and at most one line item of a
\* transaction that is not completed, on the day pending (0: none).
History(gaps, last_slot, pending) ==
    LET sold == SaleDays \ gaps
        last == MaxOf(sold)
    IN  {[created_at |-> 3 * d + (IF d = last THEN last_slot ELSE 0),
          quantity   |-> 1 + (d % 3),
          status     |-> "COMPLETED"] : d \in sold}
        \cup {[created_at |-> 3 * d + 1, quantity |-> 2, status |-> "COMPLETED"] :
                 d \in {e \in sold : e % 5 = 0 /\ e # last}}
        \cup {[created_at |-> 3 * d + 1, quantity |-> 4, status |-> "PENDING"] :
                 d \in {pending} \ {0}}

PendingDays(gaps) ==
    {0, MaxOf(SaleDays \ gaps) + 1} \cup (IF gaps = {} THEN {} ELSE {MaxOf(gaps)})

-----------------------------------------------------------------------------
(* SpecPrep: prepare_training_data on every enumerated history and window *)

InitPrep ==
    /\ \E gaps \in SubsetsUpTo(SaleDays, MaxGaps) :
         \E last_slot \in {-1, 0, 1} :
           \E pending \in PendingDays(gaps) :
             sales = History(gaps, last_slot, pending)
    /\ \E days \in (MinSaleDays - 1)..MaxTrainingDays :
         request = [forecast_days |-> 0, training_days |-> days]
    /\ now = 3 * (21 + SpanDays)
    /\ product = NoProduct
    /\ pc = "prepare"
    /\ prepared = NoData
    /\ trained = NoTraining
    /\ historical_data = <<>>
    /\ step = 0
    /\ future_predictions = <<>>
    /\ last_call = NoCall
    /\ forecasts = <<>>
    /\ recommendation = NoRecommendation
    /\ NoStore
    /\ NoEvaluation

PrepareTrainingData ==
    /\ pc = "prepare"
    /\ prepared' = prepare_training_data(sales, request.training_days)
    /\ pc' = "prepared"
    /\ UNCHANGED <<sales, now, product, request, trained, historical_data, step,
                   future_predictions, last_call, forecasts, recommendation>>
    /\ UNCHANGED storeVars
    /\ UNCHANGED evalVars

NextPrep == PrepareTrainingData

SpecPrep == InitPrep /\ [][NextPrep]_vars

\* Products that sold little or never: no line item at all, only a line item of a
\* transaction that is not completed, or completed sales on one or two days only
SparseHistories ==
    {{}, {[created_at |-> 3 * 21, quantity |-> 4, status |-> "PENDING"]}}
        \cup {History(SaleDays \ kept, 0, pending) :
                 kept \in SubsetsUpTo(SaleDays, 2) \ {{}}, pending \in {0, 20 + SpanDays}}

InitPrepAll ==
    /\ \/ sales \in SparseHistories
       \/ \E gaps \in SubsetsUpTo(SaleDays, 1) :
            \E last_slot \in {-1, 0, 1} : sales = History(gaps, last_slot, 0)
    /\ \E days \in (MinSaleDays - 1)..MaxTrainingDays :
         request = [forecast_days |-> 0, training_days |-> days]
    /\ now = 3 * (21 + SpanDays)
    /\ product = NoProduct
    /\ pc = "prepare"
    /\ prepared = NoData
    /\ trained = NoTraining
    /\ historical_data = <<>>
    /\ step = 0
    /\ future_predictions = <<>>
    /\ last_call = NoCall
    /\ forecasts = <<>>
    /\ recommendation = NoRecommendation
    /\ NoStore
    /\ NoEvaluation

SpecPrepAll == InitPrepAll /\ [][NextPrep]_vars

\* The local calendar days of the product's completed sales
CompletedSaleDays == {LocalDate(s.created_at) : s \in Completed(sales)}

\* The window the builder used
WindowDays == {d \in StartDate(sales, request.training_days)..EndDate(sales) : TRUE}

Returned == pc = "prepared" /\ ~prepared.none

\* C1: the series returned by prepare_training_data has exactly `days` rows, ending on the
\* date of the latest completed sale and starting days-1 days before it; its dates are
\* consecutive and ascending; a day of the range without completed sales has quantity 0;
\* X, y and dates have the same length.
C1_SeriesCoversWindowToLatestSaleDate ==
    Returned =>
        LET n == request.training_days
            anchor == MaxOf(CompletedSaleDays)
        IN  /\ Len(prepared.y) = n
            /\ Len(prepared.X) = n
            /\ Len(prepared.dates) = n
            /\ prepared.dates[n] = anchor
            /\ prepared.dates[1] = anchor - (n - 1)
            /\ \A k \in 1..(n - 1) : prepared.dates[k + 1] = prepared.dates[k] + 1
            /\ \A k \in 1..n : prepared.dates[k] \notin CompletedSaleDays => prepared.y[k] = 0

\* C2: lag_1[i] = quantity[i-1] (0 at the first row), lag_7[i] = quantity[i-7] (0 in the first
\* seven rows), rolling_mean_7[i] and rolling_mean_14[i] are the means of the at most 7 and
\* 14 rows ending at row i, and the features of row i are those of the series cut after row i.
TrailingRows(i, w) == {j \in 1..i : j > i - w}

RECURSIVE SumOver(_, _)
SumOver(q, J) ==
    IF J = {} THEN 0 ELSE LET j == CHOOSE x \in J : TRUE IN q[j] + SumOver(q, J \ {j})

C2_LagAndRollingFeaturesLookBackOnly ==
    Returned =>
        \A i \in 1..Len(prepared.y) :
            LET q == prepared.y
                x == prepared.X[i]
            IN  /\ x.lag_1 = (IF i = 1 THEN Rat(0, 1) ELSE Rat(q[i - 1], 1))
                /\ x.lag_7 = (IF i <= 7 THEN Rat(0, 1) ELSE Rat(q[i - 7], 1))
                /\ x.rolling_mean_7.num * Cardinality(TrailingRows(i, 7))
                     = SumOver(q, TrailingRows(i, 7)) * x.rolling_mean_7.den
                /\ x.rolling_mean_14.num * Cardinality(TrailingRows(i, 14))
                     = SumOver(q, TrailingRows(i, 14)) * x.rolling_mean_14.den
                /\ x = FeatureRow(prepared.dates[i], SubSeq(q, 1, i), i)

C2_Witness ==
    /\ Returned
    /\ \E i \in 8..Len(prepared.y) :
         /\ prepared.y[i - 1] # 0
         /\ prepared.y[i - 7] # prepared.y[i - 1]
         /\ i < Len(prepared.y)
         /\ prepared.y[i + 1] # prepared.y[i - 1]
         /\ prepared.X[i].rolling_mean_7.den # 1

\* C3: the builder fails exactly when fewer than 14 distinct days of its window carry
\* completed sales; 13 such days fail and 14 succeed, however many calendar days the
\* window has.
SaleDaysInWindow == Cardinality(CompletedSaleDays \cap WindowDays)

C3_MinimumDataGate ==
    pc = "prepared" =>
        /\ SaleDaysInWindow < 14 => prepared = NoData
        /\ SaleDaysInWindow >= 14 => ~prepared.none /\ Len(prepared.y) = request.training_days

C3_Witness ==
    /\ pc = "prepared"
    /\ SaleDaysInWindow = 13
    /\ Cardinality(WindowDays) >= 14
    /\ prepared = NoData

C3_WitnessPass ==
    /\ pc = "prepared"
    /\ SaleDaysInWindow = 14
    /\ Cardinality(WindowDays) > 14
    /\ ~prepared.none

-----------------------------------------------------------------------------
(* generate_stock_recommendation *)

\* getattr(product, 'reorder_point', None), and int(current_stock * 0.2) when it is None
ReorderPointMutant(p) ==
    IF p.reorder_point = <<>> THEN p.current_stock * 2
    ELSE p.reorder_point[1]
ReorderPoint(p) ==
    IF p.reorder_point = <<>> THEN IntTrunc(Rat(p.current_stock * 2, 10))
    ELSE p.reorder_point[1]

\* current_stock / predicted_demand, or the number 999 when no demand is predicted
DaysUntilStockout(current_stock, predicted_demand) ==
    IF predicted_demand > 0 THEN Rat(current_stock, predicted_demand) ELSE Rat(999, 1)

PriorityMutant(days_until_stockout, current_stock, reorder_point) ==
    IF ~RatLess(Rat(7, 1), days_until_stockout)
        THEN [priority |-> "CRITICAL", action |-> "URGENT_ORDER"]
    ELSE IF RatLess(days_until_stockout, Rat(14, 1))
        THEN [priority |-> "HIGH", action |-> "ORDER_SOON"]
    ELSE IF current_stock <= reorder_point
        THEN [priority |-> "MEDIUM", action |-> "REORDER"]
    ELSE [priority |-> "LOW", action |-> "MONITOR"]
Priority(days_until_stockout, current_stock, reorder_point) ==
    IF RatLess(days_until_stockout, Rat(7, 1))
        THEN [priority |-> "CRITICAL", action |-> "URGENT_ORDER"]
    ELSE IF RatLess(days_until_stockout, Rat(14, 1))
        THEN [priority |-> "HIGH", action |-> "ORDER_SOON"]
    ELSE IF current_stock < reorder_point
        THEN [priority |-> "MEDIUM", action |-> "REORDER"]
    ELSE [priority |-> "LOW", action |-> "MONITOR"]

\* safety_stock = int(predicted_demand * 7); max(0, int(predicted_demand * 30 - current_stock + safety_stock))
RecommendedOrderMutant(current_stock, predicted_demand) ==
    Max(0, predicted_demand * 30 - current_stock)
RecommendedOrder(current_stock, predicted_demand) ==
    LET safety_stock == predicted_demand * 7
    IN  Max(0, (predicted_demand * 30) - current_stock + safety_stock)

\* int(days_until_stockout) if days_until_stockout < 999 else None
ReportedDaysMutant(days_until_stockout) ==
    IF RatLess(days_until_stockout, Rat(999, 1)) THEN <<IntTrunc(days_until_stockout) + 1>>
    ELSE <<>>
ReportedDays(days_until_stockout) ==
    IF RatLess(days_until_stockout, Rat(999, 1)) THEN <<IntTrunc(days_until_stockout)>> ELSE <<>>

generate_stock_recommendation(p, forecast) ==
    LET current_stock       == p.current_stock
        reorder_point       == ReorderPoint(p)
        predicted_demand    == forecast.predicted_demand
        days_until_stockout == DaysUntilStockout(current_stock, predicted_demand)
        level               == Priority(days_until_stockout, current_stock, reorder_point)
    IN  [none                       |-> FALSE,
         priority                   |-> level.priority,
         action                     |-> level.action,
         recommended_order_quantity |-> RecommendedOrder(current_stock, predicted_demand),
         \* the reason names the stock, the demand and, below 999, the whole days to stockout
         reason                     |-> <<current_stock, predicted_demand>>
                                            \o ReportedDays(days_until_stockout),
         days_until_stockout        |-> ReportedDays(days_until_stockout)]

-----------------------------------------------------------------------------
(* SpecRec: generate_stock_recommendation on every enumerated product and forecast point *)

StockValues == 0..MaxStock \cup {370, 998, 999, 1000, 1998, 9990}
ReorderPoints == {<<>>, <<0>>, <<30>>, <<200>>}

\* 2024-02-08, the day after the last day that may carry sales
FirstForecastDate == 21 + SpanDays

\* A ProductForecast row as the linear-regression path of predict_demand writes it
ForecastRow(date, demand) ==
    [forecast_date    |-> date,
     predicted_demand |-> demand,
     confidence_lower |-> Max(0, IntTrunc(Rat(demand * 8, 10))),
     confidence_upper |-> IntTrunc(Rat(demand * 12, 10))]

InitRec ==
    /\ \E stock \in StockValues :
         \E rp \in ReorderPoints :
           product = [current_stock |-> stock, reorder_point |-> rp]
    /\ \E demand \in 0..MaxDemand :
         forecasts = <<ForecastRow(FirstForecastDate, demand)>>
    /\ sales = {}
    /\ now = 3 * (FirstForecastDate - 1)
    /\ request = NoRequest
    /\ pc = "recommend"
    /\ prepared = NoData
    /\ trained = NoTraining
    /\ historical_data = <<>>
    /\ step = 0
    /\ future_predictions = <<>>
    /\ last_call = NoCall
    /\ recommendation = NoRecommendation
    /\ NoStore
    /\ NoEvaluation

GenerateStockRecommendation ==
    /\ pc = "recommend"
    /\ recommendation' = generate_stock_recommendation(product, forecasts[1])
    /\ pc' = "recommended"
    /\ UNCHANGED <<sales, now, product, request, prepared, trained, historical_data, step,
                   future_predictions, last_call, forecasts>>
    /\ UNCHANGED storeVars
    /\ UNCHANGED evalVars

NextRec == GenerateStockRecommendation

SpecRec == InitRec /\ [][NextRec]_vars

Recommended == pc = "recommended" /\ ~recommendation.none

\* The threshold of the rule table: the product's reorder point, or 20% of its stock
Threshold == IF product.reorder_point = <<>> THEN product.current_stock \div 5
             ELSE product.reorder_point[1]

\* C6: CRITICAL/URGENT_ORDER when d > 0 and stock/d < 7; HIGH/ORDER_SOON when d > 0 and
\* 7 <= stock/d < 14; otherwise MEDIUM/REORDER when stock < threshold and LOW/MONITOR when
\* stock >= threshold. Stock 50 with demand 10 is CRITICAL with 5 days to stockout; stock 100
\* with demand 5 and threshold 30 is LOW/MONITOR.
C6_RecommendationRuleTable ==
    Recommended =>
        LET stock == product.current_stock
            d     == forecasts[1].predicted_demand
            r     == recommendation
        IN  /\ (d > 0 /\ stock < 7 * d) =>
                   r.priority = "CRITICAL" /\ r.action = "URGENT_ORDER"
            /\ (d > 0 /\ 7 * d <= stock /\ stock < 14 * d) =>
                   r.priority = "HIGH" /\ r.action = "ORDER_SOON"
            /\ ((d = 0 \/ stock >= 14 * d) /\ stock < Threshold) =>
                   r.priority = "MEDIUM" /\ r.action = "REORDER"
            /\ ((d = 0 \/ stock >= 14 * d) /\ stock >= Threshold) =>
                   r.priority = "LOW" /\ r.action = "MONITOR"
            /\ (stock = 50 /\ d = 10) =>
                   r.priority = "CRITICAL" /\ r.days_until_stockout = <<5>>
            /\ (stock = 100 /\ d = 5 /\ product.reorder_point = <<30>>) =>
                   r.priority = "LOW" /\ r.action = "MONITOR"

C6_Witness ==
    /\ Recommended
    /\ product.current_stock = 100
    /\ forecasts[1].predicted_demand = 5
    /\ product.reorder_point = <<30>>
    /\ recommendation.action = "MONITOR"

C6_WitnessMedium ==
    /\ Recommended
    /\ forecasts[1].predicted_demand = 0
    /\ recommendation.priority = "MEDIUM"

\* C7: recommended_order_quantity = max(0, demand*30 - stock + demand*7), never negative:
\* 0 whenever stock >= 37*demand, 320 for stock 50 and demand 10.
C7_RecommendedOrderQuantity ==
    Recommended =>
        LET stock == product.current_stock
            d     == forecasts[1].predicted_demand
            q     == recommendation.recommended_order_quantity
        IN  /\ q >= 0
            /\ q >= d * 30 - stock + d * 7
            /\ q = 0 \/ q = d * 30 - stock + d * 7
            /\ stock >= 37 * d => q = 0
            /\ (stock = 50 /\ d = 10) => q = 320

C7_Witness ==
    /\ Recommended
    /\ product.current_stock = 50
    /\ forecasts[1].predicted_demand = 10
    /\ recommendation.recommended_order_quantity = 320

C7_WitnessZero ==
    /\ Recommended
    /\ forecasts[1].predicted_demand > 0
    /\ product.current_stock > 37 * forecasts[1].predicted_demand
    /\ recommendation.recommended_order_quantity = 0

\* C8: days_until_stockout is null if and only if predicted_demand is 0; for every positive
\* demand, however large the stock, it is a number.
C8_DaysUntilStockoutNullIffNoDemand ==
    Recommended =>
        (recommendation.days_until_stockout = <<>> <=> forecasts[1].predicted_demand = 0)

\* C29: with no explicit reorder point the threshold is floor(0.2 * current_stock); for
\* current_stock >= 0 the stock is then never below the threshold, and the recommendation is
\* never MEDIUM/REORDER: it is CRITICAL, HIGH or LOW.
C29_FallbackThresholdNeverMedium ==
    (Recommended /\ product.reorder_point = <<>>) =>
        /\ product.current_stock >= 0
        /\ ReorderPoint(product) = product.current_stock \div 5
        /\ ~(product.current_stock < ReorderPoint(product))
        /\ recommendation.priority \in {"CRITICAL", "HIGH", "LOW"}
        /\ recommendation.action \in {"URGENT_ORDER", "ORDER_SOON", "MONITOR"}

\* No demand and 10 in stock: the threshold is 2 and the recommendation LOW
C29_Witness ==
    /\ Recommended
    /\ product.reorder_point = <<>>
    /\ product.current_stock = 10
    /\ forecasts[1].predicted_demand = 0
    /\ ReorderPoint(product) = 2
    /\ recommendation.priority = "LOW"

\* C30: a reported days_until_stockout s, the ratio truncated to an integer, agrees with the
\* priority: CRITICAL iff s < 7, HIGH iff 7 <= s < 14, MEDIUM or LOW iff s >= 14; a
\* recommendation with no days_until_stockout is never CRITICAL or HIGH.
C30_DaysConsistentWithPriority ==
    Recommended =>
        LET r == recommendation
        IN  IF r.days_until_stockout = <<>>
                THEN r.priority \notin {"CRITICAL", "HIGH"}
            ELSE LET s == r.days_until_stockout[1]
                 IN  /\ r.priority = "CRITICAL" <=> s < 7
                     /\ r.priority = "HIGH" <=> (7 <= s /\ s < 14)
                     /\ r.priority \in {"MEDIUM", "LOW"} <=> s >= 14

\* 69 in stock against 10 a day: 6.9 days, reported as 6, CRITICAL
C30_Witness ==
    /\ Recommended
    /\ product.current_stock = 69
    /\ forecasts[1].predicted_demand = 10
    /\ recommendation.days_until_stockout = <<6>>
    /\ recommendation.priority = "CRITICAL"

\* 999 in stock against 1 a day: no days reported, LOW
C30_WitnessNull ==
    /\ Recommended
    /\ product.current_stock = 999
    /\ forecasts[1].predicted_demand = 1
    /\ recommendation.days_until_stockout = <<>>
    /\ recommendation.priority \in {"MEDIUM", "LOW"}

-----------------------------------------------------------------------------
(* train_linear_regression_model *)

\* split_index = int(len(X) * 0.8)
SplitIndexMutant(n) == (n * 8 + 9) \div 10
SplitIndex(n) == IntTrunc(Rat(n * 8, 10))

\* X[:split_index], X[split_index:]
TrainRowsMutant(rows, split_index) == rows
TrainRows(rows, split_index) == SubSeq(rows, 1, split_index)
TestRows(rows, split_index) == SubSeq(rows, split_index + 1, Len(rows))

\* What the try block may do: run to its end, or raise in a fit, a transform or a metric
FitOutcomes == {"ok", "raises"}

\* The except branch: return None, None, None, None, whatever had been built by then
TrainingRaisedMutant(scaler) == [NoTraining EXCEPT !.scaler = <<scaler>>]
TrainingRaised(scaler) == NoTraining

\* The fitted LinearRegression and StandardScaler are opaque: each is known by the rows it
\* was fitted on, and what the pair answers to a feature vector is drawn anew at every
\* prediction (RolloutOutcomes below). The metrics are known by the rows they were
\* computed on.
train_linear_regression_model(S, days, fit) ==
    LET data == prepare_training_data(S, days)
    IN  IF data.none \/ Len(data.X) < 14 THEN NoTraining
        ELSE LET split_index == SplitIndex(Len(data.X))
                 X_train     == TrainRows(data.X, split_index)
                 X_test      == TestRows(data.X, split_index)
                 y_train     == TrainRows(data.y, split_index)
                 y_test      == TestRows(data.y, split_index)
                 scaler      == [fitted_on |-> X_train]
             IN  IF fit = "raises" THEN TrainingRaised(scaler)
                 ELSE [model         |-> <<[fitted_on |-> X_train, targets |-> y_train,
                                            scaled_by |-> scaler]>>,
                       scaler        |-> <<scaler>>,
                       metrics       |-> <<[evaluated_on |-> X_test, targets |-> y_test,
                                            scaled_by |-> scaler]>>,
                       training_info |-> <<[training_samples     |-> Len(X_train),
                                            test_samples         |-> Len(X_test),
                                            features_used        |-> 8,
                                            training_period_days |-> days]>>]

-----------------------------------------------------------------------------
(* predict_demand *)

\* The lag and rolling features of the forecast date, from the list handed in
LagFeaturesMutant(p, hist) ==
    LET n == Len(hist)
    IN  [lag_1           |-> Rat(hist[Max(1, n - 1)], 1),
         lag_7           |-> IF n >= 7 THEN Rat(hist[n - 6], 1) ELSE Rat(0, 1),
         rolling_mean_7  |-> IF n >= 7 THEN Mean(SubSeq(hist, n - 6, n)) ELSE Rat(0, 1),
         rolling_mean_14 |-> IF n >= 14 THEN Mean(SubSeq(hist, n - 13, n)) ELSE Rat(0, 1)]
LagFeatures(p, hist) ==
    LET n == Len(hist)
    IN  IF n > 0
        THEN [lag_1           |-> Rat(hist[n], 1),
              lag_7           |-> IF n >= 7 THEN Rat(hist[n - 6], 1) ELSE Rat(0, 1),
              rolling_mean_7  |-> IF n >= 7 THEN Mean(SubSeq(hist, n - 6, n)) ELSE Rat(0, 1),
              rolling_mean_14 |-> IF n >= 14 THEN Mean(SubSeq(hist, n - 13, n)) ELSE Rat(0, 1)]
        ELSE LET estimate == Rat(p.current_stock, 30)
             IN  [lag_1 |-> estimate, lag_7 |-> estimate,
                  rolling_mean_7 |-> estimate, rolling_mean_14 |-> estimate]

\* prediction = max(0, int(prediction))
ClampMutant(raw) == IntTrunc(raw)
Clamp(raw) == Max(0, IntTrunc(raw))

\* conf_lower = max(0, int(prediction * 0.8)); conf_upper = int(prediction * 1.2)
ConfidenceIntervalMutant(prediction) ==
    <<Max(0, IntTrunc(Rat(prediction * 85, 100))), IntTrunc(Rat(prediction * 115, 100))>>
ConfidenceInterval(prediction) ==
    <<Max(0, IntTrunc(Rat(prediction * 8, 10))), IntTrunc(Rat(prediction * 12, 10))>>

\* The except branch: fallback = int(product.current_stock / 30), with its own band
FallbackMutant(p) ==
    LET fallback == IntTrunc(Rat(p.current_stock, 7))
    IN  [prediction |-> fallback,
         confidence |-> <<IntTrunc(Rat(fallback * 8, 10)), IntTrunc(Rat(fallback * 12, 10))>>]
Fallback(p) ==
    LET fallback == IntTrunc(Rat(p.current_stock, 30))
    IN  [prediction |-> fallback,
         confidence |-> <<IntTrunc(Rat(fallback * 8, 10)), IntTrunc(Rat(fallback * 12, 10))>>]

\* outcome: where the try block raises ("features", "predict") or not at all ("no"), and
\* the number model.predict returns
predict_demand(p, forecast_date, hist, outcome) ==
    IF outcome.raises # "no" THEN Fallback(p)
    ELSE LET prediction == Clamp(outcome.raw)
         IN  [prediction |-> prediction, confidence |-> ConfidenceInterval(prediction)]

\* The features the call built: none when building them raised
FeaturesBuilt(p, hist, outcome) ==
    IF outcome.raises = "features" THEN <<>> ELSE <<LagFeatures(p, hist)>>

-----------------------------------------------------------------------------
(* GenerateForecastView.post *)

\* last_date = timezone.now().date()
LastDate == UtcDate(now)

\* What the fitted model may answer, in tenths: -1.5, 0.4, 2.7
RawOutputs == {Rat(-15, 10), Rat(4, 10), Rat(27, 10)}

RolloutOutcomes ==
    {[raises |-> "features", raw |-> Rat(0, 1)], [raises |-> "predict", raw |-> Rat(0, 1)]}
        \cup {[raises |-> "no", raw |-> r] : r \in RawOutputs}

\* Rows an earlier run left for the product: one for a past date, one for tomorrow
OldForecasts(today) == <<ForecastRow(today - 1, 9), ForecastRow(today + 1, 9)>>

Init ==
    /\ \E gaps \in {{}, {25}} :
         \E last_slot \in {-1, 0} :
           /\ sales = History(gaps, last_slot, 0)
           /\ \E later \in {0, 2} : now = 3 * (20 + SpanDays + later) + 1
    /\ \E stock \in {0, 45, 100} : product = [current_stock |-> stock, reorder_point |-> <<>>]
    /\ \E n \in 1..MaxForecastDays :
         \E days \in {MinSaleDays, MaxTrainingDays} :
           request = [forecast_days |-> n, training_days |-> days]
    /\ pc = "train"
    /\ prepared = NoData
    /\ trained = NoTraining
    /\ historical_data = <<>>
    /\ step = 0
    /\ future_predictions = <<>>
    /\ last_call = NoCall
    /\ forecasts = OldForecasts(LastDate)
    /\ recommendation = NoRecommendation
    /\ NoStore
    /\ NoEvaluation

\* views.py 150-162: train, and answer 400 when no model comes back
Train ==
    /\ pc = "train"
    /\ \E fit \in FitOutcomes :
         trained' = train_linear_regression_model(sales, request.training_days, fit)
    /\ pc' = IF trained'.model = <<>> THEN "bad_request" ELSE "fetch_history"
    /\ UNCHANGED <<sales, now, product, request, prepared, historical_data, step,
                   future_predictions, last_call, forecasts, recommendation>>
    /\ UNCHANGED storeVars
    /\ UNCHANGED evalVars

\* views.py 198-200: the series again, as the list the rollout starts from; list(None)
\* raises, and the outer handler answers 500
FetchHistory ==
    /\ pc = "fetch_history"
    /\ prepared' = prepare_training_data(sales, request.training_days)
    /\ historical_data' = prepared'.y
    /\ pc' = IF prepared'.none THEN "server_error" ELSE "delete_old"
    /\ UNCHANGED <<sales, now, product, request, trained, step, future_predictions,
                   last_call, forecasts, recommendation>>
    /\ UNCHANGED storeVars
    /\ UNCHANGED evalVars

\* views.py 202-207: delete the product's forecasts dated last_date or later
DeleteOldForecasts ==
    /\ pc = "delete_old"
    /\ forecasts' = SelectSeq(forecasts, LAMBDA row : ~(row.forecast_date >= LastDate))
    /\ step' = 1
    /\ pc' = "rollout"
    /\ UNCHANGED <<sales, now, product, request, prepared, trained, historical_data,
                   future_predictions, last_call, recommendation>>
    /\ UNCHANGED storeVars
    /\ UNCHANGED evalVars

\* views.py 211: future_date = last_date + timedelta(days=i)
FutureDateMutant(last_date, i) == last_date + 1
FutureDate(last_date, i) == last_date + i

\* views.py 245: historical_data.append(pred_qty)
AppendPredictionMutant(hist, pred_qty) == hist
AppendPrediction(hist, pred_qty) == Append(hist, pred_qty)

\* views.py 210: for i in range(1, forecast_days + 1)
InRangeMutant(i, forecast_days) == 1 <= i /\ i < forecast_days
InRange(i, forecast_days) == 1 <= i /\ i < forecast_days + 1

\* views.py 210-245: one pass of the loop
RolloutStep ==
    /\ pc = "rollout"
    /\ InRange(step, request.forecast_days)
    /\ \E outcome \in RolloutOutcomes :
         LET future_date == FutureDate(LastDate, step)
             result      == predict_demand(product, future_date, historical_data, outcome)
             row         == [forecast_date    |-> future_date,
                             predicted_demand |-> result.prediction,
                             confidence_lower |-> result.confidence[1],
                             confidence_upper |-> result.confidence[2]]
         IN  /\ last_call' = [step     |-> step,
                               raises   |-> outcome.raises,
                               raw      |-> outcome.raw,
                               features |-> FeaturesBuilt(product, historical_data, outcome),
                               model    |-> trained.model,
                               scaler   |-> trained.scaler]
             /\ forecasts' = Append(forecasts, row)
             /\ future_predictions' = Append(future_predictions, row)
             /\ historical_data' = AppendPrediction(historical_data, result.prediction)
    /\ step' = step + 1
    /\ UNCHANGED <<sales, now, product, request, pc, prepared, trained, recommendation>>
    /\ UNCHANGED storeVars
    /\ UNCHANGED evalVars

\* views.py 249-292: the recommendation from the first row dated last_date + 1, and the answer
Recommend ==
    /\ pc = "rollout"
    /\ ~InRange(step, request.forecast_days)
    /\ LET found == SelectSeq(forecasts, LAMBDA row : row.forecast_date = LastDate + 1)
       IN  recommendation' = IF found # <<>>
                             THEN generate_stock_recommendation(product, found[1])
                             ELSE recommendation
    /\ pc' = "done"
    /\ UNCHANGED <<sales, now, product, request, prepared, trained, historical_data, step,
                   future_predictions, last_call, forecasts>>
    /\ UNCHANGED storeVars
    /\ UNCHANGED evalVars

Next == Train \/ FetchHistory \/ DeleteOldForecasts \/ RolloutStep \/ Recommend

Spec == Init /\ [][Next]_vars

-----------------------------------------------------------------------------
(* train_linear_regression_model on every enumerated history and window *)

TrainLinearRegressionModel ==
    /\ pc = "prepare"
    /\ \E fit \in FitOutcomes :
         trained' = train_linear_regression_model(sales, request.training_days, fit)
    /\ pc' = "trained"
    /\ UNCHANGED <<sales, now, product, request, prepared, historical_data, step,
                   future_predictions, last_call, forecasts, recommendation>>
    /\ UNCHANGED storeVars
    /\ UNCHANGED evalVars

NextTrain == TrainLinearRegressionModel

SpecTrain == InitPrep /\ [][NextTrain]_vars

-----------------------------------------------------------------------------
(* The evaluation of train_linear_regression_model on its own: the accuracy of one list of
   predictions against one list of quantities *)

\* percentage_errors = np.abs((y_test - y_pred) / (y_test + 1)) * 100, one row
PercentageError(actual, predicted) ==
    Rat(100 * Abs(actual * predicted.den - predicted.num), predicted.den * (actual + 1))

\* percentage_errors <= 20, one row
WithinTwenty(actual, predicted) == ~RatLess(Rat(20, 1), PercentageError(actual, predicted))

\* accuracy = np.mean(percentage_errors <= 20) * 100
AccuracyMutant(actuals, predictions) ==
    Rat(Cardinality({k \in 1..Len(actuals) : WithinTwenty(actuals[k], predictions[k])}),
        Len(actuals))
Accuracy(actuals, predictions) ==
    Rat(100 * Cardinality({k \in 1..Len(actuals) : WithinTwenty(actuals[k], predictions[k])}),
        Len(actuals))

\* The evaluation rows: their quantities, and predictions in halves from -1/2 on
MaxTestRows == 2
MaxPredictedHalves == 10
ActualValues == {0, 1, 4, 9}
PredictedValues == {Rat(k, 2) : k \in (-1)..MaxPredictedHalves}

RECURSIVE SeqsOf(_, _)
SeqsOf(S, n) ==
    IF n = 0 THEN {<<>>} ELSE {Append(q, x) : q \in SeqsOf(S, n - 1), x \in S}

InitMetrics ==
    /\ \E n \in 1..MaxTestRows :
         /\ y_test_values \in SeqsOf(ActualValues, n)
         /\ y_pred_values \in SeqsOf(PredictedValues, n)
    /\ metrics = <<>>
    /\ sales = {}
    /\ now = 3 * (21 + SpanDays)
    /\ product = NoProduct
    /\ request = NoRequest
    /\ pc = "evaluate"
    /\ prepared = NoData
    /\ trained = NoTraining
    /\ historical_data = <<>>
    /\ step = 0
    /\ future_predictions = <<>>
    /\ last_call = NoCall
    /\ forecasts = <<>>
    /\ recommendation = NoRecommendation
    /\ NoStore

\* ml_utils.py 174-184: the accuracy entry of the metrics dictionary
EvaluateModel ==
    /\ pc = "evaluate"
    /\ metrics' = <<[accuracy |-> Accuracy(y_test_values, y_pred_values)]>>
    /\ pc' = "evaluated"
    /\ UNCHANGED <<sales, now, product, request, prepared, trained, historical_data, step,
                   future_predictions, last_call, forecasts, recommendation,
                   y_test_values, y_pred_values>>
    /\ UNCHANGED storeVars

NextMetrics == EvaluateModel

SpecMetrics == InitMetrics /\ [][NextMetrics]_vars

-----------------------------------------------------------------------------
(* predict_demand on its own: one call, whatever the stock, the list and the date *)

\* The model's answers of a single call range over the tenths from -MaxNegativeTenths to
\* MaxRawTenths
MaxNegativeTenths == 12
MaxRawTenths == 35
MaxWholeRaw == 24

PredictOutcomes ==
    {[raises |-> "features", raw |-> Rat(0, 1)], [raises |-> "predict", raw |-> Rat(0, 1)]}
        \cup {[raises |-> "no", raw |-> Rat(k, 10)] : k \in (-MaxNegativeTenths)..MaxRawTenths}
        \cup {[raises |-> "no", raw |-> Rat(k, 1)] : k \in 4..MaxWholeRaw}

\* The lists a call may be handed: none, a short one, one of fourteen days and more
PredictHistories ==
    {<<>>, <<3, 1, 2>>, <<4, 0, 1, 2, 3, 0, 5, 1, 1, 0, 2, 6, 0, 3>>,
     <<1, 1, 0, 9, 2, 2, 0, 0, 7, 1, 3, 0, 2, 2, 5, 8>>}

InitPredict ==
    /\ sales = {}
    /\ now = 3 * (20 + SpanDays) + 1
    /\ \E stock \in StockValues : product = [current_stock |-> stock, reorder_point |-> <<>>]
    /\ request = NoRequest
    /\ pc = "predict"
    /\ prepared = NoData
    /\ trained = NoTraining
    /\ historical_data \in PredictHistories
    /\ step \in 1..MaxForecastDays
    /\ future_predictions = <<>>
    /\ last_call = NoCall
    /\ forecasts = <<>>
    /\ recommendation = NoRecommendation
    /\ NoStore
    /\ NoEvaluation

\* ml_utils.py 205-258: one call of predict_demand for the date last_date + step
PredictDemand ==
    /\ pc = "predict"
    /\ \E outcome \in PredictOutcomes :
         LET future_date == FutureDate(LastDate, step)
             result      == predict_demand(product, future_date, historical_data, outcome)
         IN  /\ last_call' = [step     |-> step,
                               raises   |-> outcome.raises,
                               raw      |-> outcome.raw,
                               features |-> FeaturesBuilt(product, historical_data, outcome),
                               model    |-> trained.model,
                               scaler   |-> trained.scaler]
             /\ future_predictions' = <<[forecast_date    |-> future_date,
                                         predicted_demand |-> result.prediction,
                                         confidence_lower |-> result.confidence[1],
                                         confidence_upper |-> result.confidence[2]]>>
    /\ pc' = "predicted"
    /\ UNCHANGED <<sales, now, product, request, prepared, trained, historical_data, step,
                   forecasts, recommendation>>
    /\ UNCHANGED storeVars
    /\ UNCHANGED evalVars

NextPredict == PredictDemand

SpecPredict == InitPredict /\ [][NextPredict]_vars

-----------------------------------------------------------------------------
(* GenerateForecastView.post: several requests served against the tables *)

MaxStoreForecastDays == 2
MaxDaysPassed == 1

\* Two requests, for either of two products
RunIds == {1, 2}
ProductIds == {1, 2}

singleVars == <<product, request, pc, prepared, trained, historical_data, step,
                future_predictions, last_call, recommendation>>

\* filter(items__product=product), filter(product=product): the line items of one product
ProductSales(S, product_id) ==
    {[created_at |-> s.created_at, quantity |-> s.quantity, status |-> s.status] :
        s \in {t \in S : t.product = product_id}}

SalesOf(S, product_id) ==
    {[created_at |-> s.created_at, quantity |-> s.quantity, status |-> s.status,
      product |-> product_id] : s \in S}

\* The local variables of a post() that has not been called
NoRun ==
    [pc |-> "idle", product_id |-> 0, forecast_days |-> 0, training_days |-> 0,
     product |-> NoProduct, trained |-> NoTraining, forecast_model |-> 0, last_date |-> 0,
     historical_data |-> <<>>, i |-> 0, deleted |-> <<>>, future_predictions |-> <<>>,
     first_forecast |-> <<>>, recommendation_data |-> NoRecommendation]

Finished == {"done", "bad_request", "server_error"}

NoRunActive == \A r \in RunIds : runs[r].pc \in Finished \cup {"idle"}

\* name=f"LR_{product.name}_{timezone.now().strftime('%Y%m%d')}"
ModelName(p, t) == <<"LR", p.name, UtcDate(t)>>

\* filter(product=product, forecast_date__gte=last_date)
DeleteFilterMutant(row, product_id, last_date) ==
    row.product = product_id /\ row.forecast_date > last_date + 1
DeleteFilter(row, product_id, last_date) ==
    row.product = product_id /\ row.forecast_date >= last_date

\* filter(product=product, status='PENDING')
PendingFilterMutant(rec, product_id) == rec.product = product_id /\ rec.status = "APPROVED"
PendingFilter(rec, product_id) == rec.product = product_id /\ rec.status = "PENDING"

\* What the fitted model answers in these runs: it raises, or 2.7
StoreOutcomes ==
    {[raises |-> "predict", raw |-> Rat(0, 1)], [raises |-> "no", raw |-> Rat(27, 10)]}

\* What earlier requests left behind: a ForecastModel row of yesterday, forecasts of
\* product 1 for yesterday and for tomorrow, an approved and a pending recommendation
OldModels(today) ==
    <<[id |-> 1, name |-> <<"LR", "Rose", today - 1>>, metrics |-> <<>>,
       training_start_date |-> today - 1 - MinSaleDays, training_end_date |-> today - 1,
       training_samples |-> 11]>>

OldStoreForecasts(today) ==
    <<[id |-> 1, product |-> 1, forecast_model |-> 1, forecast_date |-> today - 1,
       predicted_demand |-> 9, confidence_lower |-> 7, confidence_upper |-> 10],
      [id |-> 2, product |-> 1, forecast_model |-> 1, forecast_date |-> today + 1,
       predicted_demand |-> 9, confidence_lower |-> 7, confidence_upper |-> 10]>>

OldRecommendations ==
    <<[id |-> 1, product |-> 1, forecast |-> 1, current_stock |-> 45,
       recommended_order_quantity |-> 225, reason |-> <<45, 9, 5>>, priority |-> "CRITICAL",
       status |-> "APPROVED"],
      [id |-> 2, product |-> 1, forecast |-> 2, current_stock |-> 45,
       recommended_order_quantity |-> 225, reason |-> <<45, 9, 5>>, priority |-> "CRITICAL",
       status |-> "PENDING"]>>

InitStore ==
    /\ sales = SalesOf(History({}, 0, 0), 1) \cup SalesOf(History({}, -1, 0), 2)
    /\ now = 3 * (20 + SpanDays) + 1
    /\ \E second \in {"Rose", "Tulip"} :
         products = [id \in ProductIds |->
                        [name          |-> IF id = 1 THEN "Rose" ELSE second,
                         current_stock |-> IF id = 1 THEN 45 ELSE 100,
                         reorder_point |-> <<>>]]
    /\ runs = [r \in RunIds |-> NoRun]
    /\ forecast_models = OldModels(LastDate)
    /\ forecasts = OldStoreForecasts(LastDate)
    /\ stock_recommendations = OldRecommendations
    /\ next_id = [forecast |-> 3, recommendation |-> 3]
    /\ product = NoProduct
    /\ request = NoRequest
    /\ pc = "store"
    /\ prepared = NoData
    /\ trained = NoTraining
    /\ historical_data = <<>>
    /\ step = 0
    /\ future_predictions = <<>>
    /\ last_call = NoCall
    /\ recommendation = NoRecommendation
    /\ NoEvaluation

\* views.py 126-148: the validated request and Product.objects.get; requests are numbered
\* in the order they arrive
Post(r, ids) ==
    /\ runs[r].pc = "idle"
    /\ r > 1 => runs[r - 1].pc # "idle"
    /\ \E product_id \in ids :
         \E n \in 1..MaxStoreForecastDays :
           runs' = [runs EXCEPT ![r] = [NoRun EXCEPT !.pc = "train",
                                                     !.product_id = product_id,
                                                     !.forecast_days = n,
                                                     !.training_days = MinSaleDays,
                                                     !.product = products[product_id]]]
    /\ UNCHANGED <<sales, now, forecasts, products, forecast_models, stock_recommendations,
                   next_id>>
    /\ UNCHANGED singleVars
    /\ UNCHANGED evalVars

\* views.py 155-160: 400 when no model comes back, or on with the run
TrainingAnswerMutant(result) == IF result.model = <<>> THEN "server_error" ELSE "get_model"
TrainingAnswer(result) == IF result.model = <<>> THEN "bad_request" ELSE "get_model"

\* views.py 150-162: train on the product's own line items; 400 when no model comes back
TrainModel(r) ==
    /\ runs[r].pc = "train"
    /\ \E fit \in FitOutcomes :
         LET result == train_linear_regression_model(ProductSales(sales, runs[r].product_id),
                                                     runs[r].training_days, fit)
         IN  runs' = [runs EXCEPT ![r].trained = result,
                                  ![r].pc = TrainingAnswer(result)]
    /\ UNCHANGED <<sales, now, forecasts, products, forecast_models, stock_recommendations,
                   next_id>>
    /\ UNCHANGED singleVars
    /\ UNCHANGED evalVars

\* views.py 164-195: ForecastModel.objects.get_or_create by name, the lookup and the
\* creation in one step; a row found is used as it is; then last_date
GetOrCreateForecastModel(r) ==
    /\ runs[r].pc = "get_model"
    /\ LET name  == ModelName(runs[r].product, now)
           found == SelectSeq(forecast_models, LAMBDA m : m.name = name)
           id    == IF found # <<>> THEN found[1].id ELSE Len(forecast_models) + 1
       IN  /\ forecast_models' =
                IF found # <<>> THEN forecast_models
                ELSE Append(forecast_models,
                            [id                  |-> id,
                             name                |-> name,
                             metrics             |-> runs[r].trained.metrics,
                             training_start_date |-> UtcDate(now) - runs[r].training_days,
                             training_end_date   |-> UtcDate(now),
                             training_samples    |->
                                 runs[r].trained.training_info[1].training_samples])
           /\ runs' = [runs EXCEPT ![r].forecast_model = id,
                                   ![r].last_date = LastDate,
                                   ![r].pc = "fetch_history"]
    /\ UNCHANGED <<sales, now, forecasts, products, stock_recommendations, next_id>>
    /\ UNCHANGED singleVars
    /\ UNCHANGED evalVars

\* views.py 198-200: the series again; list(None) raises and the outer handler answers 500
FetchProductHistory(r) ==
    /\ runs[r].pc = "fetch_history"
    /\ LET data == prepare_training_data(ProductSales(sales, runs[r].product_id),
                                         runs[r].training_days)
       IN  runs' = [runs EXCEPT ![r].historical_data = data.y,
                                ![r].pc = IF data.none THEN "server_error" ELSE "delete_old"]
    /\ UNCHANGED <<sales, now, forecasts, products, forecast_models, stock_recommendations,
                   next_id>>
    /\ UNCHANGED singleVars
    /\ UNCHANGED evalVars

\* views.py 202-208: delete the product's forecasts dated last_date or later; the run keeps
\* what the delete removed (the code keeps their count). Recommendations that point at a
\* removed row stay as they are.
DeleteForecasts(r) ==
    /\ runs[r].pc = "delete_old"
    /\ forecasts' = SelectSeq(forecasts,
                              LAMBDA row : ~DeleteFilter(row, runs[r].product_id,
                                                         runs[r].last_date))
    /\ runs' = [runs EXCEPT ![r].deleted =
                                SelectSeq(forecasts,
                                          LAMBDA row : DeleteFilter(row, runs[r].product_id,
                                                                    runs[r].last_date)),
                            ![r].i = 1,
                            ![r].pc = "rollout"]
    /\ UNCHANGED <<sales, now, products, forecast_models, stock_recommendations, next_id>>
    /\ UNCHANGED singleVars
    /\ UNCHANGED evalVars

\* views.py 210-245: one pass of the loop, the row saved
CreateForecast(r) ==
    /\ runs[r].pc = "rollout"
    /\ InRange(runs[r].i, runs[r].forecast_days)
    /\ \E outcome \in StoreOutcomes :
         LET future_date == FutureDate(runs[r].last_date, runs[r].i)
             result      == predict_demand(runs[r].product, future_date,
                                           runs[r].historical_data, outcome)
             row         == [id               |-> next_id.forecast,
                             product          |-> runs[r].product_id,
                             forecast_model   |-> runs[r].forecast_model,
                             forecast_date    |-> future_date,
                             predicted_demand |-> result.prediction,
                             confidence_lower |-> result.confidence[1],
                             confidence_upper |-> result.confidence[2]]
         IN  /\ forecasts' = Append(forecasts, row)
             /\ runs' = [runs EXCEPT
                            ![r].future_predictions =
                                Append(@, [id               |-> row.id,
                                           date             |-> future_date,
                                           predicted_demand |-> row.predicted_demand,
                                           confidence_lower |-> row.confidence_lower,
                                           confidence_upper |-> row.confidence_upper]),
                            ![r].historical_data = AppendPrediction(@, result.prediction),
                            ![r].i = @ + 1]
    /\ next_id' = [next_id EXCEPT !.forecast = @ + 1]
    /\ UNCHANGED <<sales, now, products, forecast_models, stock_recommendations>>
    /\ UNCHANGED singleVars
    /\ UNCHANGED evalVars

\* views.py 224-234, 294-305: ProductForecast.objects.create raises; the outer handler
\* answers 500 and nothing is undone
CreateForecastFails(r) ==
    /\ runs[r].pc = "rollout"
    /\ InRange(runs[r].i, runs[r].forecast_days)
    /\ runs' = [runs EXCEPT ![r].pc = "server_error"]
    /\ UNCHANGED <<sales, now, forecasts, products, forecast_models, stock_recommendations,
                   next_id>>
    /\ UNCHANGED singleVars
    /\ UNCHANGED evalVars

\* views.py 253-259: a row of the product dated last_date + 1 (the order .first() reads in is
\* declared with the ProductForecast model: any of the rows that match), and the
\* recommendation computed from it
FirstForecast(r) ==
    /\ runs[r].pc = "rollout"
    /\ ~InRange(runs[r].i, runs[r].forecast_days)
    /\ LET found == SelectSeq(forecasts,
                              LAMBDA row : /\ row.product = runs[r].product_id
                                           /\ row.forecast_date = runs[r].last_date + 1)
       IN  IF found = <<>>
           THEN runs' = [runs EXCEPT ![r].pc = "done"]
           ELSE \E k \in 1..Len(found) :
                  runs' = [runs EXCEPT
                             ![r].first_forecast = <<found[k]>>,
                             ![r].recommendation_data =
                                 generate_stock_recommendation(runs[r].product, found[k]),
                             ![r].pc = "delete_recommendations"]
    /\ UNCHANGED <<sales, now, forecasts, products, forecast_models, stock_recommendations,
                   next_id>>
    /\ UNCHANGED singleVars
    /\ UNCHANGED evalVars

\* views.py 261-265: delete the product's pending recommendations
DeletePendingRecommendations(r) ==
    /\ runs[r].pc = "delete_recommendations"
    /\ stock_recommendations' =
           SelectSeq(stock_recommendations,
                     LAMBDA rec : ~PendingFilter(rec, runs[r].product_id))
    /\ runs' = [runs EXCEPT ![r].pc = "create_recommendation"]
    /\ UNCHANGED <<sales, now, forecasts, products, forecast_models, next_id>>
    /\ UNCHANGED singleVars
    /\ UNCHANGED evalVars

\* views.py 268-292: the new pending recommendation, and the answer 200
CreateRecommendation(r) ==
    /\ runs[r].pc = "create_recommendation"
    /\ LET data == runs[r].recommendation_data
       IN  stock_recommendations' =
               Append(stock_recommendations,
                      [id                         |-> next_id.recommendation,
                       product                    |-> runs[r].product_id,
                       forecast                   |-> runs[r].first_forecast[1].id,
                       current_stock              |-> runs[r].product.current_stock,
                       recommended_order_quantity |-> data.recommended_order_quantity,
                       reason                     |-> data.reason,
                       priority                   |-> data.priority,
                       status                     |-> "PENDING"])
    /\ next_id' = [next_id EXCEPT !.recommendation = @ + 1]
    /\ runs' = [runs EXCEPT ![r].pc = "done"]
    /\ UNCHANGED <<sales, now, forecasts, products, forecast_models>>
    /\ UNCHANGED singleVars
    /\ UNCHANGED evalVars

\* views.py 268-276, 294-305: StockRecommendation.objects.create raises; 500
CreateRecommendationFails(r) ==
    /\ runs[r].pc = "create_recommendation"
    /\ runs' = [runs EXCEPT ![r].pc = "server_error"]
    /\ UNCHANGED <<sales, now, forecasts, products, forecast_models, stock_recommendations,
                   next_id>>
    /\ UNCHANGED singleVars
    /\ UNCHANGED evalVars

\* A day goes by between two requests
DayPasses ==
    /\ NoRunActive
    /\ \E r \in RunIds : runs[r].pc = "idle"
    /\ now < 3 * (20 + SpanDays + MaxDaysPassed)
    /\ now' = now + 3
    /\ UNCHANGED <<sales, forecasts, products, runs, forecast_models, stock_recommendations,
                   next_id>>
    /\ UNCHANGED singleVars
    /\ UNCHANGED evalVars

\* One request at a time: a request arrives when none is being served
NextRerun ==
    \/ \E r \in RunIds : NoRunActive /\ Post(r, ProductIds)
    \/ \E r \in RunIds : TrainModel(r)
    \/ \E r \in RunIds : GetOrCreateForecastModel(r)
    \/ \E r \in RunIds : FetchProductHistory(r)
    \/ \E r \in RunIds : DeleteForecasts(r)
    \/ \E r \in RunIds : CreateForecast(r)
    \/ \E r \in RunIds : CreateForecastFails(r)
    \/ \E r \in RunIds : FirstForecast(r)
    \/ \E r \in RunIds : DeletePendingRecommendations(r)
    \/ \E r \in RunIds : CreateRecommendation(r)
    \/ \E r \in RunIds : CreateRecommendationFails(r)
    \/ DayPasses

SpecRerun == InitStore /\ [][NextRerun]_vars

\* The two requests for product 1 served at the same time, their steps interleaved; no
\* step fails
NextConcurrent ==
    \/ \E r \in RunIds : Post(r, {1})
    \/ \E r \in RunIds : TrainModel(r)
    \/ \E r \in RunIds : GetOrCreateForecastModel(r)
    \/ \E r \in RunIds : FetchProductHistory(r)
    \/ \E r \in RunIds : DeleteForecasts(r)
    \/ \E r \in RunIds : CreateForecast(r)
    \/ \E r \in RunIds : FirstForecast(r)
    \/ \E r \in RunIds : DeletePendingRecommendations(r)
    \/ \E r \in RunIds : CreateRecommendation(r)

SpecConcurrent == InitStore /\ [][NextConcurrent]_vars

-----------------------------------------------------------------------------
(* GenerateForecastView.post while the shop goes on selling: requests served one at a time,
   for a product that sells, a product with no or too little history and a product that
   does not exist, and a sale of the first product completed at any moment *)

\* Product 2 never sold, or sold on 13 days
ShortHistories == {{}, History({22, 26, 30, 34}, 0, 0)}

InitSales ==
    /\ \E short \in ShortHistories :
         sales = SalesOf(History({}, 0, 0), 1) \cup SalesOf(short, 2)
    /\ \E later \in {1, 3} : now = 3 * (20 + SpanDays) + later
    /\ products = [id \in ProductIds |->
                      [name          |-> IF id = 1 THEN "Rose" ELSE "Tulip",
                       current_stock |-> IF id = 1 THEN 45 ELSE 100,
                       reorder_point |-> <<>>]]
    /\ runs = [r \in RunIds |-> NoRun]
    /\ forecast_models = OldModels(LastDate)
    /\ forecasts = OldStoreForecasts(LastDate)
    /\ stock_recommendations = OldRecommendations
    /\ next_id = [forecast |-> 3, recommendation |-> 3]
    /\ product = NoProduct
    /\ request = NoRequest
    /\ pc = "store"
    /\ prepared = NoData
    /\ trained = NoTraining
    /\ historical_data = <<>>
    /\ step = 0
    /\ future_predictions = <<>>
    /\ last_call = NoCall
    /\ recommendation = NoRecommendation
    /\ NoEvaluation

\* views.py 140-148: Product.objects.get raises Product.DoesNotExist; 400
PostUnknownProduct(r) ==
    /\ runs[r].pc = "idle"
    /\ r > 1 => runs[r - 1].pc # "idle"
    /\ \E product_id \in {Cardinality(ProductIds) + 1} :
         /\ product_id \notin DOMAIN products
         /\ runs' = [runs EXCEPT ![r] = [NoRun EXCEPT !.pc = "bad_request",
                                                      !.product_id = product_id]]
    /\ UNCHANGED <<sales, now, forecasts, products, forecast_models, stock_recommendations,
                   next_id>>
    /\ UNCHANGED singleVars
    /\ UNCHANGED evalVars

\* views.py 126-148: a request for product 1 that asks for the longest training window
PostLongWindow(r) ==
    /\ runs[r].pc = "idle"
    /\ r > 1 => runs[r - 1].pc # "idle"
    /\ \E n \in 1..MaxStoreForecastDays :
         runs' = [runs EXCEPT ![r] = [NoRun EXCEPT !.pc = "train",
                                                   !.product_id = 1,
                                                   !.forecast_days = n,
                                                   !.training_days = MaxTrainingDays,
                                                   !.product = products[1]]]
    /\ UNCHANGED <<sales, now, forecasts, products, forecast_models, stock_recommendations,
                   next_id>>
    /\ UNCHANGED singleVars
    /\ UNCHANGED evalVars

\* The line item of a sale of product 1 completed at this moment
NewSale == [created_at |-> now, quantity |-> 7, status |-> "COMPLETED", product |-> 1]

\* sales/views.py: a sale of product 1 is completed, between any two steps of a request
RecordSale ==
    /\ NewSale \notin sales
    /\ sales' = sales \cup {NewSale}
    /\ UNCHANGED <<now, forecasts, products, runs, forecast_models, stock_recommendations,
                   next_id>>
    /\ UNCHANGED singleVars
    /\ UNCHANGED evalVars

NextSales ==
    \/ \E r \in RunIds : NoRunActive /\ Post(r, ProductIds)
    \/ \E r \in RunIds : NoRunActive /\ PostUnknownProduct(r)
    \/ \E r \in RunIds : NoRunActive /\ PostLongWindow(r)
    \/ \E r \in RunIds : TrainModel(r)
    \/ \E r \in RunIds : GetOrCreateForecastModel(r)
    \/ \E r \in RunIds : FetchProductHistory(r)
    \/ \E r \in RunIds : DeleteForecasts(r)
    \/ \E r \in RunIds : CreateForecast(r)
    \/ \E r \in RunIds : FirstForecast(r)
    \/ \E r \in RunIds : DeletePendingRecommendations(r)
    \/ \E r \in RunIds : CreateRecommendation(r)
    \/ RecordSale

SpecSales == InitSales /\ [][NextSales]_vars

-----------------------------------------------------------------------------
(* Claims about a run *)

InRollout == pc \in {"rollout", "done"}

\* The point predictions of the run so far, in order
Predictions == [k \in 1..Len(future_predictions) |-> future_predictions[k].predicted_demand]

RECURSIVE SumLast(_, _)
SumLast(s, k) == IF k = 0 THEN 0 ELSE s[Len(s)] + SumLast(SubSeq(s, 1, Len(s) - 1), k - 1)

\* C4: historical_data starts as the observed daily quantities and gains exactly the clamped
\* prediction of each step before the next step; step i+1 builds lag_1 = p_i and lag_7 and
\* the rolling means from the observed quantities followed by p_1..p_i.
C4_RolloutFeedsPredictionsBack ==
    /\ pc = "delete_old" => historical_data = prepared.y
    /\ InRollout =>
        /\ Len(historical_data) = Len(prepared.y) + (step - 1)
        /\ historical_data = prepared.y \o Predictions
        /\ \A k \in 1..Len(Predictions) : Predictions[k] >= 0
        /\ last_call.features # <<>> =>
             LET i    == last_call.step
                 f    == last_call.features[1]
                 seen == prepared.y \o SubSeq(Predictions, 1, i - 1)
             IN  /\ i >= 2 => f.lag_1 = Rat(Predictions[i - 1], 1)
                 /\ i = 1 => f.lag_1 = Rat(prepared.y[Len(prepared.y)], 1)
                 /\ f.lag_7 = Rat(seen[Len(seen) - 6], 1)
                 /\ f.rolling_mean_7.num * 7 = SumLast(seen, 7) * f.rolling_mean_7.den
                 /\ f.rolling_mean_14.num * 14 = SumLast(seen, 14) * f.rolling_mean_14.den

C4_Witness ==
    /\ InRollout
    /\ last_call.step = 3
    /\ last_call.features # <<>>
    /\ Predictions[2] = 2
    /\ Predictions[1] = 0
    /\ prepared.y[Len(prepared.y)] \notin {0, 2}
    /\ last_call.features[1].lag_1 = Rat(2, 1)

C9_ForecastStartsAfterAnchor ==
    InRollout =>
        \A k \in 1..Len(future_predictions) :
            future_predictions[k].forecast_date = prepared.dates[Len(prepared.dates)] + k

\* C9 as amended: the forecast dates increase by exactly one day and start on the day after
\* the current date, timezone.now().date(), whatever the anchor.
C9_ForecastStartsTomorrow ==
    InRollout =>
        \A k \in 1..Len(future_predictions) :
            future_predictions[k].forecast_date = (now \div 3) + k

C9_Witness ==
    /\ pc = "done"
    /\ Len(future_predictions) >= 2
    /\ prepared.dates[Len(prepared.dates)] < now \div 3
    /\ future_predictions[1].forecast_date = (now \div 3) + 1
    /\ future_predictions[2].forecast_date = (now \div 3) + 2

\* C10: the loop makes exactly forecast_days passes and the run has exactly forecast_days
\* points, one per requested day in date order; a pass in which predict_demand raises adds
\* the fallback point and the loop goes on.
FallbackPoint(date) ==
    LET fallback == product.current_stock \div 30
    IN  [forecast_date    |-> date,
         predicted_demand |-> fallback,
         confidence_lower |-> (fallback * 8) \div 10,
         confidence_upper |-> (fallback * 12) \div 10]

C10_EveryRequestedDayYieldsAPoint ==
    /\ InRollout =>
        /\ step <= request.forecast_days + 1
        /\ Len(future_predictions) = step - 1
        /\ last_call.step = step - 1
        /\ \A k \in 1..(Len(future_predictions) - 1) :
             future_predictions[k].forecast_date < future_predictions[k + 1].forecast_date
        /\ (last_call.step >= 1 /\ last_call.raises # "no") =>
             future_predictions[last_call.step] = FallbackPoint((now \div 3) + last_call.step)
    /\ pc = "done" =>
        /\ step = request.forecast_days + 1
        /\ Len(future_predictions) = request.forecast_days
        /\ Len(SelectSeq(forecasts, LAMBDA row : row.forecast_date > now \div 3))
             = request.forecast_days

C10_Witness ==
    /\ pc = "done"
    /\ request.forecast_days = 3
    /\ Len(future_predictions) = 3
    /\ last_call.raises = "no"
    /\ future_predictions[1] = FallbackPoint((now \div 3) + 1)
    /\ future_predictions[2] = FallbackPoint((now \div 3) + 2)
    /\ future_predictions[3].predicted_demand # product.current_stock \div 30

-----------------------------------------------------------------------------
(* Claims about one call of predict_demand *)

Predicted == pc = "predicted"

\* C11: a call in which building the features or model.predict raises still returns: the
\* point is floor(current_stock / 30) and the band is that point times 0.8 and 1.2 as whole
\* numbers, a function of the stock alone, the same for every forecast date and every list.
C11_FallbackDependsOnStockOnly ==
    (Predicted /\ last_call.raises # "no") =>
        LET fallback == product.current_stock \div 30
            point    == future_predictions[1]
        IN  /\ Len(future_predictions) = 1
            /\ point.predicted_demand = fallback
            /\ point.confidence_lower = (fallback * 8) \div 10
            /\ point.confidence_upper = (fallback * 12) \div 10
            /\ point.forecast_date = (now \div 3) + step

C11_Witness ==
    /\ Predicted
    /\ last_call.raises = "features"
    /\ product.current_stock = 100
    /\ Len(historical_data) = 16
    /\ step = 2
    /\ future_predictions[1].predicted_demand = 3
    /\ future_predictions[1].confidence_lower = 2
    /\ future_predictions[1].confidence_upper = 3

\* C21: the band of a call that does not raise is floor(0.8 p) and floor(1.2 p) of its point
\* p >= 0; p lies within it, and it is [0, 0] exactly when p = 0.
C21_ConfidenceBand ==
    (Predicted /\ last_call.raises = "no") =>
        LET point == future_predictions[1]
            p     == point.predicted_demand
        IN  /\ p >= 0
            /\ point.confidence_lower = (8 * p) \div 10
            /\ point.confidence_upper = (12 * p) \div 10
            /\ point.confidence_lower <= p
            /\ p <= point.confidence_upper
            /\ (point.confidence_lower = 0 /\ point.confidence_upper = 0) <=> p = 0

C21_Witness ==
    /\ Predicted
    /\ last_call.raises = "no"
    /\ future_predictions[1].predicted_demand = 13
    /\ future_predictions[1].confidence_lower = 10
    /\ future_predictions[1].confidence_upper = 15

C21_WitnessZero ==
    /\ Predicted
    /\ last_call.raises = "no"
    /\ last_call.raw.num < 0
    /\ future_predictions[1].predicted_demand = 0
    /\ future_predictions[1].confidence_upper = 0

\* Nearest whole number of a rational, halves to the even neighbour (round)
Round(r) ==
    LET floor  == r.num \div r.den
        twice  == 2 * (r.num - floor * r.den)
    IN  IF twice < r.den THEN floor
        ELSE IF twice > r.den THEN floor + 1
        ELSE IF floor % 2 = 0 THEN floor ELSE floor + 1

\* C12: the point of a call that does not raise is max(0, round(r)) for the model's answer
\* r, rounded to the nearest whole number and not truncated: 2.7 gives 3.
C12_PointIsRoundedModelOutput ==
    (Predicted /\ last_call.raises = "no") =>
        future_predictions[1].predicted_demand = Max(0, Round(last_call.raw))

-----------------------------------------------------------------------------
(* Claims about the line items prepare_training_data reads *)

\* C17: prepare_training_data tells a product with no completed sale at all from a product
\* with completed sales on fewer than 14 days of the window: what it hands back in the
\* second case differs from what it hands back in the first.
C17_NoSalesAndTooFewSalesDiffer ==
    (pc = "prepared" /\ prepared.none /\ \E s \in sales : s.status = "COMPLETED") =>
        prepared # prepare_training_data({}, request.training_days)

\* C20: the anchor, every daily quantity and the count of sale days come from the line
\* items of completed transactions alone: the result is the one the completed line items
\* give on their own, the window ends on the date of the latest completed one, and each
\* daily quantity is the sum of the completed line items of that calendar day.
C20_CompletedSalesOnly ==
    pc = "prepared" =>
        LET done == {s \in sales : s.status = "COMPLETED"}
        IN  /\ prepared = prepare_training_data(done, request.training_days)
            /\ ~prepared.none =>
                 /\ prepared.dates[Len(prepared.dates)]
                      = UtcDate(MaxOf({s.created_at : s \in done}))
                 /\ \A k \in 1..Len(prepared.y) :
                      prepared.y[k]
                        = SumQuantity({s \in done : LocalDate(s.created_at) = prepared.dates[k]})

\* A line item of a pending transaction on a day of the window without completed sales
C20_Witness ==
    /\ Returned
    /\ \E s \in sales :
         /\ s.status = "PENDING"
         /\ \E k \in 1..Len(prepared.dates) :
              /\ prepared.dates[k] = LocalDate(s.created_at)
              /\ prepared.y[k] = 0

\* A line item of a pending transaction later than every completed one
C20_WitnessAnchor ==
    /\ Returned
    /\ \E s \in sales :
         /\ s.status = "PENDING"
         /\ UtcDate(s.created_at) > prepared.dates[Len(prepared.dates)]

-----------------------------------------------------------------------------
(* Claims about training *)

Fitted == pc = "trained" /\ trained.model # <<>>

\* C13: training keeps the rows in date order and cuts them once: the model and the scaler
\* are fitted on the first floor(0.8 N) rows, the metrics are computed on the remaining
\* rows, the two parts are disjoint and together are the whole series, and training_info
\* reports floor(0.8 N) training samples and N - floor(0.8 N) test samples.
C13_ChronologicalSplit ==
    Fitted =>
        LET data  == prepare_training_data(sales, request.training_days)
            N     == Len(data.X)
            k     == (8 * N) \div 10
            model == trained.model[1]
            held  == trained.metrics[1]
            info  == trained.training_info[1]
        IN  /\ model.fitted_on = [i \in 1..k |-> data.X[i]]
            /\ model.targets = [i \in 1..k |-> data.y[i]]
            /\ trained.scaler[1].fitted_on = model.fitted_on
            /\ held.evaluated_on = [i \in 1..(N - k) |-> data.X[k + i]]
            /\ held.targets = [i \in 1..(N - k) |-> data.y[k + i]]
            /\ model.fitted_on \o held.evaluated_on = data.X
            /\ Len(model.fitted_on) + Len(held.evaluated_on) = N
            /\ \A i \in 1..k : \A j \in 1..(N - k) : data.dates[i] < data.dates[k + j]
            /\ info.training_samples = k
            /\ info.test_samples = N - k

C13_Witness ==
    /\ Fitted
    /\ request.training_days = 14
    /\ trained.training_info[1].training_samples = 11
    /\ trained.training_info[1].test_samples = 3
    /\ Len(trained.metrics[1].evaluated_on) = 3

\* The sales with the quantity of one line item changed
Requantified(S, s, delta) == (S \ {s}) \cup {[s EXCEPT !.quantity = s.quantity + delta]}

\* The days of the evaluation rows of the call
EvaluationDays ==
    LET data == prepare_training_data(sales, request.training_days)
        k    == (Len(data.X) * 8) \div 10
    IN  {data.dates[i] : i \in (k + 1)..Len(data.X)}

\* C23: the fitted scaler and the fitted model depend only on the first floor(0.8 N) rows:
\* a series that differs in the quantity of an evaluation day agrees on those rows and gives
\* the same scaler and the same model, and the evaluation rows are transformed with the
\* scaler fitted on the training rows.
C23_NoLeakage ==
    Fitted =>
        LET days == request.training_days
            data == prepare_training_data(sales, days)
            k    == (Len(data.X) * 8) \div 10
            held == {data.dates[i] : i \in (k + 1)..Len(data.X)}
        IN  /\ trained.scaler[1].fitted_on = SubSeq(data.X, 1, k)
            /\ trained.model[1].fitted_on = SubSeq(data.X, 1, k)
            /\ trained.model[1].targets = SubSeq(data.y, 1, k)
            /\ trained.model[1].scaled_by = trained.scaler[1]
            /\ trained.metrics[1].scaled_by = trained.scaler[1]
            /\ \A s \in {c \in Completed(sales) : LocalDate(c.created_at) \in held} :
                 LET again == train_linear_regression_model(Requantified(sales, s, 5),
                                                            days, "ok")
                 IN  /\ again.scaler = trained.scaler
                     /\ again.model = trained.model

\* A sale of an evaluation day sells 5 more: other metrics, the same model and scaler
C23_Witness ==
    /\ Fitted
    /\ \E s \in Completed(sales) :
         LET again == train_linear_regression_model(Requantified(sales, s, 5),
                                                    request.training_days, "ok")
         IN  /\ LocalDate(s.created_at) \in EvaluationDays
             /\ again.metrics # trained.metrics
             /\ again.model = trained.model
             /\ again.scaler = trained.scaler

\* C18: training returns a model, a scaler, metrics and training information all four, or
\* none of the four; a run goes on only with all four, and every prediction step of the run
\* is handed the model and the scaler of that one training call, the scaler the model's
\* training rows were scaled by.
C18_ModelAndScalerTogether ==
    /\ \/ trained = NoTraining
       \/ /\ trained.model # <<>>
          /\ trained.scaler # <<>>
          /\ trained.metrics # <<>>
          /\ trained.training_info # <<>>
    /\ pc \in {"fetch_history", "delete_old", "rollout", "done", "server_error"} =>
          trained.model # <<>>
    /\ (InRollout /\ last_call.step >= 1) =>
          /\ last_call.model = trained.model
          /\ last_call.scaler = trained.scaler
          /\ last_call.scaler # <<>>
          /\ last_call.model[1].scaled_by = last_call.scaler[1]

C18_Witness ==
    /\ pc = "done"
    /\ last_call.step = 3
    /\ last_call.scaler = trained.scaler
    /\ last_call.scaler # <<>>

C18_WitnessRaised ==
    /\ pc = "bad_request"
    /\ ~prepare_training_data(sales, request.training_days).none
    /\ trained = NoTraining

-----------------------------------------------------------------------------
(* Claims about requests served against the tables *)

\* The forecast dates of request r
RangeOf(r) == (runs[r].last_date + 1)..(runs[r].last_date + runs[r].forecast_days)

\* The rows of a product for a date, and the rows request r wrote that are still there
RowsOn(product_id, d) ==
    SelectSeq(forecasts, LAMBDA row : row.product = product_id /\ row.forecast_date = d)

WrittenIds(r) ==
    {runs[r].future_predictions[k].id : k \in 1..Len(runs[r].future_predictions)}

RowsOf(r) == SelectSeq(forecasts, LAMBDA row : row.id \in WrittenIds(r))

PendingOf(product_id) ==
    SelectSeq(stock_recommendations,
              LAMBDA rec : rec.product = product_id /\ rec.status = "PENDING")

\* Request r answered 200 and no request has arrived since
LatestDone(r) ==
    /\ runs[r].pc = "done"
    /\ \A later \in RunIds : later > r => runs[later].pc = "idle"

\* C14: with one request served at a time, after a request that answered 200 the table
\* holds, for each date of its range, exactly one row of the product, the one this request
\* wrote, and exactly one pending recommendation of the product, computed from the first
\* point of this request; no row and no pending recommendation of an earlier request is
\* left for that range.
C14_RerunReplaces ==
    \A r \in RunIds :
        LatestDone(r) =>
            LET p       == runs[r].product_id
                points  == runs[r].future_predictions
                pending == PendingOf(p)
            IN  /\ Len(points) = runs[r].forecast_days
                /\ \A d \in RangeOf(r) :
                     LET rows  == RowsOn(p, d)
                         point == points[d - runs[r].last_date]
                     IN  /\ Len(rows) = 1
                         /\ rows[1].id = point.id
                         /\ rows[1].predicted_demand = point.predicted_demand
                /\ \A k \in 1..Len(forecasts) :
                     (forecasts[k].product = p /\ forecasts[k].forecast_date \in RangeOf(r))
                         => forecasts[k].id \in WrittenIds(r)
                /\ Len(pending) = 1
                /\ pending[1].forecast = points[1].id
                /\ LET data == generate_stock_recommendation(
                                   products[p], [predicted_demand |-> points[1].predicted_demand])
                   IN  /\ pending[1].priority = data.priority
                       /\ pending[1].recommended_order_quantity = data.recommended_order_quantity

\* Two requests for one product on one day, the second for more days than the first
C14_Witness ==
    /\ LatestDone(2)
    /\ runs[1].pc = "done"
    /\ runs[1].product_id = 1
    /\ runs[2].product_id = 1
    /\ runs[1].last_date = runs[2].last_date
    /\ runs[1].forecast_days = 1
    /\ runs[2].forecast_days = 2
    /\ RowsOf(1) = <<>>
    /\ Len(RowsOf(2)) = 2

\* The second request a day after the first: the rows of the first are gone, the row from
\* before both, dated earlier, stays
C14_WitnessNextDay ==
    /\ LatestDone(2)
    /\ runs[1].pc = "done"
    /\ runs[1].product_id = 1
    /\ runs[2].product_id = 1
    /\ runs[2].last_date = runs[1].last_date + 1
    /\ RowsOf(1) = <<>>
    /\ forecasts[1].id = 1

\* C15: a request that fails after it began replacing rows leaves the rows of its range
\* either all as they were before it or all new: never some of each, and never neither.
C15_AtomicReplacement ==
    \A r \in RunIds :
        (/\ runs[r].pc = "server_error"
         /\ \A later \in RunIds : later > r => runs[later].pc = "idle") =>
            \/ /\ Len(RowsOf(r)) = runs[r].forecast_days
               /\ \A d \in RangeOf(r) : Len(RowsOn(runs[r].product_id, d)) = 1
            \/ /\ RowsOf(r) = <<>>
               /\ \A k \in 1..Len(runs[r].deleted) :
                    runs[r].deleted[k].forecast_date \notin RangeOf(r)

\* C16: when two requests for one product on one day are served with their steps
\* interleaved and both answer 200, every row from before them dated today or later is gone,
\* every date of their common range holds one or two rows of the product, all the rows of
\* at least one of the two are there, and the product has one or two pending
\* recommendations; two rows for a date and two pending recommendations do happen.
BothDone == runs[1].pc = "done" /\ runs[2].pc = "done"

C16_InterleavedRunsMix ==
    BothDone =>
        /\ \A k \in 1..Len(forecasts) :
             (forecasts[k].product = 1 /\ forecasts[k].forecast_date >= runs[1].last_date)
                 => forecasts[k].id \in WrittenIds(1) \cup WrittenIds(2)
        /\ \A d \in RangeOf(1) \cap RangeOf(2) : Len(RowsOn(1, d)) \in {1, 2}
        /\ \E r \in {1, 2} : Len(RowsOf(r)) = runs[r].forecast_days
        /\ Len(PendingOf(1)) \in {1, 2}

\* Two rows for one product and date
C16_Witness ==
    /\ BothDone
    /\ \E d \in RangeOf(1) \cap RangeOf(2) : Len(RowsOn(1, d)) = 2

\* Two pending recommendations for one product
C16_WitnessPending ==
    /\ BothDone
    /\ Len(PendingOf(1)) = 2

\* Rows of one request for some dates only, next to the rows of the other
C16_WitnessPartial ==
    /\ BothDone
    /\ runs[1].forecast_days = 2
    /\ runs[2].forecast_days = 2
    /\ Len(RowsOf(1)) = 1
    /\ Len(RowsOf(2)) = 2

\* C19: with one request served at a time, a request for product P trains on P's line items
\* alone; the rows and the pending recommendation that the latest request for another
\* product Q wrote stay as written; and the rows P's request wrote point at a ForecastModel
\* row that carries the metrics of P's own training, whatever the names of P and Q and
\* whatever the day.
LatestFor(r) ==
    /\ runs[r].pc = "done"
    /\ \A later \in RunIds :
         later > r => runs[later].pc = "idle" \/ runs[later].product_id # runs[r].product_id

C19_ReadsOwnSales ==
    \A r \in RunIds :
        runs[r].pc \in {"rollout", "delete_recommendations", "create_recommendation", "done"} =>
            LET own == {[created_at |-> s.created_at, quantity |-> s.quantity,
                         status |-> s.status] : s \in {t \in sales : t.product = runs[r].product_id}}
                n   == Len(runs[r].historical_data) - Len(runs[r].future_predictions)
            IN  /\ SubSeq(runs[r].historical_data, 1, n)
                     = prepare_training_data(own, runs[r].training_days).y
                /\ runs[r].trained.model[1].targets
                     = SubSeq(prepare_training_data(own, runs[r].training_days).y, 1,
                              Len(runs[r].trained.model[1].targets))

C19_OthersUntouched ==
    \A r \in RunIds :
        LatestFor(r) =>
            /\ Len(RowsOf(r)) = runs[r].forecast_days
            /\ \E k \in 1..Len(stock_recommendations) :
                 /\ stock_recommendations[k].product = runs[r].product_id
                 /\ stock_recommendations[k].status = "PENDING"
                 /\ stock_recommendations[k].forecast = runs[r].future_predictions[1].id

C19_OwnForecastModel ==
    \A r \in RunIds :
        runs[r].pc = "done" =>
            \A k \in 1..Len(forecasts) :
                forecasts[k].id \in WrittenIds(r) =>
                    forecast_models[forecasts[k].forecast_model].metrics
                        = runs[r].trained.metrics

C19_CrossProductIndependence ==
    /\ C19_ReadsOwnSales
    /\ C19_OthersUntouched
    /\ C19_OwnForecastModel

\* C28: a successful run whose forecast dates are D+1..D+n removes only rows of its
\* product dated within D+1..D+n; the product's rows dated D or earlier, or later than
\* D+n, are left as they are.
C28_ReplacementFrame ==
    \A r \in RunIds :
        runs[r].pc = "done" =>
            \A k \in 1..Len(runs[r].deleted) :
                /\ runs[r].deleted[k].product = runs[r].product_id
                /\ runs[r].deleted[k].forecast_date \in RangeOf(r)

-----------------------------------------------------------------------------
(* Claims about requests while the shop goes on selling *)

\* The daily series a run's model was trained on: the training rows, then the evaluation rows
TrainedOn(r) == runs[r].trained.model[1].targets \o runs[r].trained.metrics[1].targets

\* C25: the quantities that seed the rollout of a run are the daily series the run's model
\* was trained on, even when a sale of the product is completed between the training and
\* the second fetch.
C25_RolloutSeedIsTrainingSeries ==
    \A r \in RunIds :
        runs[r].pc = "delete_old" => runs[r].historical_data = TrainedOn(r)

\* The three tables a request writes
tables == <<forecasts, stock_recommendations, forecast_models>>

\* One step of a request that has written nothing yet
FailsBeforeWrite(r) ==
    /\ runs[r].pc \in {"idle", "train"}
    /\ runs'[r] # runs[r]
    /\ runs'[r].pc = "bad_request"

\* C26: when the product does not exist, or training gives no model because the product has
\* no or too little history, the request is answered 400 and every forecast row, stock
\* recommendation and forecast-model record is as it was before the request.
C26_Step ==
    \A r \in RunIds :
        /\ (runs[r].pc = "idle" /\ runs'[r].pc # "idle") =>
               (runs'[r].product_id \notin DOMAIN products <=> runs'[r].pc = "bad_request")
        /\ (runs[r].pc = "train" /\ runs'[r] # runs[r]) =>
               (runs'[r].trained.model = <<>> <=> runs'[r].pc = "bad_request")
        /\ (runs[r].pc \in {"idle", "train"} /\ runs'[r] # runs[r]) => tables' = tables
        /\ FailsBeforeWrite(r) =>
               /\ runs'[r].forecast_model = 0
               /\ runs'[r].deleted = <<>>
               /\ runs'[r].future_predictions = <<>>
               /\ (r = 1) => /\ forecasts' = OldStoreForecasts(LastDate)
                             /\ stock_recommendations' = OldRecommendations
                             /\ forecast_models' = OldModels(LastDate)

C26_FailureLeavesStoreUnchanged == [][C26_Step]_vars

\* The first request is for the product that never sold: 400, the tables as they were
C26_Witness ==
    /\ runs[1].pc = "bad_request"
    /\ runs[1].product_id = 2
    /\ ProductSales(sales, 2) = {}
    /\ runs[1].trained = NoTraining
    /\ forecasts = OldStoreForecasts(LastDate)
    /\ stock_recommendations = OldRecommendations
    /\ forecast_models = OldModels(LastDate)

\* The second request is for the product that sold on 13 days, after a first that wrote
C26_WitnessTooFew ==
    /\ runs[1].pc = "done"
    /\ runs[2].pc = "bad_request"
    /\ runs[2].product_id = 2
    /\ ProductSales(sales, 2) # {}
    /\ Len(forecast_models) = 2

\* A request for a product that does not exist
C26_WitnessUnknown ==
    /\ runs[1].pc = "bad_request"
    /\ runs[1].product_id \notin DOMAIN products
    /\ forecasts = OldStoreForecasts(LastDate)

\* C27: after a successful run, the forecast-model record its rows reference carries the
\* metrics and the training sample count of the run's own training.
C27_RecordCarriesOwnMetrics ==
    \A r \in RunIds :
        runs[r].pc = "done" =>
            LET record == forecast_models[runs[r].forecast_model]
            IN  /\ record.metrics = runs[r].trained.metrics
                /\ record.training_samples =
                       runs[r].trained.training_info[1].training_samples
                /\ \A k \in 1..Len(forecasts) :
                     forecasts[k].id \in WrittenIds(r) =>
                         forecasts[k].forecast_model = record.id

-----------------------------------------------------------------------------
(* Training-time and forecast-time features *)

\* The feature row prepare_training_data builds for the forecast day of the call, were the
\* list of the call followed by that day's own quantity x
TrainingRowFor(x) ==
    FeatureRow(future_predictions[1].forecast_date, Append(historical_data, x),
               Len(historical_data) + 1)

\* A call that built its features from a list of at least 14 days
BuiltFromFullHistory ==
    Predicted /\ last_call.features # <<>> /\ Len(historical_data) >= 14

\* The lags of the two places are at the same offsets: the day before and seven days before
LagOffsetsAgree ==
    BuiltFromFullHistory =>
        \A x \in 0..MaxDemand :
            /\ last_call.features[1].lag_1 = TrainingRowFor(x).lag_1
            /\ last_call.features[1].lag_7 = TrainingRowFor(x).lag_7

\* C24: for a history ending on day d - 1, the lag_1, lag_7, rolling_mean_7 and
\* rolling_mean_14 predict_demand computes for day d are those of the feature row
\* prepare_training_data computes for day d, whatever the quantity of day d itself.
C24_FeaturesAgree ==
    BuiltFromFullHistory =>
        \A x \in 0..MaxDemand :
            /\ last_call.features[1].lag_1 = TrainingRowFor(x).lag_1
            /\ last_call.features[1].lag_7 = TrainingRowFor(x).lag_7
            /\ last_call.features[1].rolling_mean_7 = TrainingRowFor(x).rolling_mean_7
            /\ last_call.features[1].rolling_mean_14 = TrainingRowFor(x).rolling_mean_14

-----------------------------------------------------------------------------
(* Claims about the evaluation *)

Evaluated == pc = "evaluated"

\* The evaluation rows with 5 |actual - predicted| <= actual + 1
RowsWithin ==
    {k \in 1..Len(y_test_values) :
        5 * Abs(y_test_values[k] * y_pred_values[k].den - y_pred_values[k].num)
            <= (y_test_values[k] + 1) * y_pred_values[k].den}

\* C22 as claimed: the accuracy is the fraction, a value in [0, 1], of the evaluation rows
\* with |actual - predicted| / (actual + 1) <= 0.20.
C22_AccuracyIsFraction ==
    Evaluated =>
        LET accuracy == metrics[1].accuracy
        IN  /\ accuracy.num * Len(y_test_values) = Cardinality(RowsWithin) * accuracy.den
            /\ 0 <= accuracy.num
            /\ accuracy.num <= accuracy.den

\* C22 as amended: the accuracy is the percentage, a value in [0, 100], of the evaluation
\* rows with |actual - predicted| / (actual + 1) <= 0.20, that is 100 times the fraction; a
\* row with actual = 0 is counted with the divisor 1.
C22_AccuracyIsPercentage ==
    Evaluated =>
        LET accuracy == metrics[1].accuracy
        IN  /\ accuracy.num * Len(y_test_values) = 100 * Cardinality(RowsWithin) * accuracy.den
            /\ 0 <= accuracy.num
            /\ accuracy.num <= 100 * accuracy.den
            /\ \A k \in 1..Len(y_test_values) :
                 y_test_values[k] = 0 =>
                     (k \in RowsWithin
                        <=> 5 * Abs(y_pred_values[k].num) <= y_pred_values[k].den)

\* One row on the boundary (4 against 5), one row with actual = 0 outside it: 50
C22_Witness ==
    /\ Evaluated
    /\ y_test_values = <<4, 0>>
    /\ y_pred_values = <<Rat(5, 1), Rat(1, 2)>>
    /\ metrics[1].accuracy = Rat(50, 1)

====
